---- MODULE Spec2Model ----
(***************************************************************************)
(* A model of the stal author-attribution core (stal-core, model/bayesian): *)
(* BayesianModel::train, classify_text / predicate_text / predicate,        *)
(* adjust_probabilities, save and load.                                     *)
(*                                                                          *)
(* f32 values are modelled as decimal floating point numbers with Digits    *)
(* significant digits, an exponent, and the two special values NaN and      *)
(* +/-Inf, with the IEEE-754 rules for them (0/0 = NaN, x/0 = Inf, NaN      *)
(* propagates through + - * /) and Rust's f32::max / f32::min, which return *)
(* the other operand when one operand is NaN.                               *)
(***************************************************************************)
EXTENDS Integers, Sequences, FiniteSets, TLC

(***************************************************************************)
(* Bounds of the model.                                                     *)
(***************************************************************************)
MaxDataset == 2            \* longest dataset handed to train
MaxSentences == 2          \* most sentences in a classified text
MaxRatings == 88           \* longest rating list handed to adjust_probabilities
MaxSeed == 3               \* rating lists of each length
MaxVector == 2             \* longest count vector in a file written by another program

(***************************************************************************)
(* f32 arithmetic.                                                          *)
(***************************************************************************)
Digits == 4                \* significant decimal digits kept by the model's f32
MinExp == -45              \* decimal exponent below which an f32 underflows to 0

Pow10(n) == <<1, 10, 100, 1000, 10000, 100000, 1000000, 10000000, 100000000,
             1000000000>>[n + 1]

Base == Pow10(Digits)

Abs(x) == IF x < 0 THEN -x ELSE x

Sgn(x) == IF x < 0 THEN -1 ELSE 1

NaN == [k |-> "nan", m |-> 0, e |-> 0]

Inf == [k |-> "inf", m |-> 1, e |-> 0]

NegInf == [k |-> "inf", m |-> -1, e |-> 0]

Zero == [k |-> "num", m |-> 0, e |-> 0]

\* The number of decimal digits of a positive number.
DigitsOf(n) ==
  IF n < 100000
    THEN IF n < 100 THEN (IF n < 10 THEN 1 ELSE 2)
         ELSE IF n < 1000 THEN 3 ELSE IF n < 10000 THEN 4 ELSE 5
    ELSE IF n < 10000000 THEN (IF n < 1000000 THEN 6 ELSE 7)
         ELSE IF n < 100000000 THEN 8 ELSE IF n < 1000000000 THEN 9 ELSE 10

\* A number m * 10^e rounded (toward zero) to Digits digits; underflow gives 0.
Norm(m, e) ==
  IF m = 0 THEN Zero
  ELSE LET shift == DigitsOf(Abs(m)) - Digits
       IN  IF e + shift + Digits - 1 < MinExp THEN Zero
           ELSE [k |-> "num",
                 m |-> IF shift >= 0 THEN Sgn(m) * (Abs(m) \div Pow10(shift))
                       ELSE m * Pow10(-shift),
                 e |-> e + shift]

\* `n as f32` for a u32 n.
FromU32(n) == Norm(n, 0)

One == FromU32(1)

Two == FromU32(2)

IsNaN(a) == a.k = "nan"

IsInf(a) == a.k = "inf"

IsNum(a) == a.k = "num"

FNeg(a) == IF IsNaN(a) THEN NaN ELSE [a EXCEPT !.m = -a.m]

FMul(a, b) ==
  IF IsNaN(a) \/ IsNaN(b) THEN NaN
  ELSE IF IsInf(a) \/ IsInf(b)
    THEN IF a.m = 0 \/ b.m = 0 THEN NaN
         ELSE IF Sgn(a.m) = Sgn(b.m) THEN Inf ELSE NegInf
  ELSE Norm(a.m * b.m, a.e + b.e)

FDiv(a, b) ==
  IF IsNaN(a) \/ IsNaN(b) THEN NaN
  ELSE IF IsInf(a)
    THEN IF IsInf(b) THEN NaN
         ELSE IF Sgn(a.m) = Sgn(b.m) THEN Inf ELSE NegInf
  ELSE IF IsInf(b) THEN Zero
  ELSE IF b.m = 0
    THEN IF a.m = 0 THEN NaN ELSE IF a.m > 0 THEN Inf ELSE NegInf
  ELSE Norm(Sgn(a.m) * Sgn(b.m) * ((Abs(a.m) * Base) \div Abs(b.m)),
            a.e - b.e - Digits)

FAdd(a, b) ==
  IF IsNaN(a) \/ IsNaN(b) THEN NaN
  ELSE IF IsInf(a)
    THEN IF IsInf(b) /\ a.m # b.m THEN NaN ELSE a
  ELSE IF IsInf(b) THEN b
  ELSE IF a.m = 0 THEN b
  ELSE IF b.m = 0 THEN a
  ELSE LET hi == IF a.e >= b.e THEN a ELSE b
           lo == IF a.e >= b.e THEN b ELSE a
           d  == hi.e - lo.e
       IN  IF d > Digits + 1 THEN hi
           ELSE Norm(hi.m * Pow10(d) + lo.m, lo.e)

FSub(a, b) == FAdd(a, FNeg(b))

\* a < b; false as soon as one side is NaN (partial_cmp gives None).
FLt(a, b) ==
  IF IsNaN(a) \/ IsNaN(b) THEN FALSE
  ELSE IF IsInf(a) THEN a.m < 0 /\ ~(IsInf(b) /\ b.m < 0)
  ELSE IF IsInf(b) THEN b.m > 0
  ELSE IF a.m <= 0 /\ b.m >= 0 THEN a.m < b.m
  ELSE IF a.m >= 0 /\ b.m <= 0 THEN FALSE
  ELSE IF a.m > 0 THEN a.e < b.e \/ (a.e = b.e /\ a.m < b.m)
  ELSE a.e > b.e \/ (a.e = b.e /\ a.m < b.m)

FLe(a, b) == ~IsNaN(a) /\ ~IsNaN(b) /\ ~FLt(b, a)

\* f32::max and f32::min: a NaN operand is ignored.
FMax(a, b) == IF IsNaN(a) THEN b ELSE IF IsNaN(b) THEN a ELSE IF FLt(a, b) THEN b ELSE a

FMin(a, b) == IF IsNaN(a) THEN b ELSE IF IsNaN(b) THEN a ELSE IF FLt(b, a) THEN b ELSE a

\* g * g * ... * g, n factors, each product rounded as an f32 product is.
RECURSIVE PowN(_, _)
PowN(g, n) == IF n = 0 THEN One ELSE FMul(PowN(g, n - 1), g)

\* The largest k in lo..hi-1 with (k / Base)^n <= x, by bisection
\* (PowN(lo / Base, n) <= x is kept true; hi is above every such k).
RECURSIVE Bisect(_, _, _, _)
Bisect(x, n, lo, hi) ==
  IF hi - lo <= 1 THEN lo
  ELSE LET mid == (lo + hi) \div 2
       IN  IF FLe(PowN(Norm(mid, -Digits), n), x)
             THEN Bisect(x, n, mid, hi)
             ELSE Bisect(x, n, lo, mid)

\* x.powf(1.0 / n as f32) for x >= 0: the n-th root; for n = 0 the exponent is
\* 1.0 / 0.0 = +Inf, and powf(1, Inf) = 1, powf(x, Inf) = 0 for 0 <= x < 1.
PowfNth(x, n) ==
  IF IsNaN(x) THEN NaN
  ELSE IF x = One THEN One
  ELSE IF n = 0 THEN (IF FLt(x, One) THEN Zero ELSE Inf)
  ELSE IF IsInf(x) THEN Inf
  ELSE IF x.m = 0 THEN Zero
  ELSE Norm(Bisect(x, n, 0, Base + 1), -Digits)

(***************************************************************************)
(* Constants of the classifier.                                             *)
(***************************************************************************)
NO_TOKEN_RATING == Norm(4, -1)

MIN_RATING == Norm(2, -1)

MAX_RATING == Norm(7, -1)


(***************************************************************************)
(* Sequences.                                                               *)
(***************************************************************************)
RECURSIVE SumSeq(_)
SumSeq(s) == IF s = <<>> THEN 0 ELSE Head(s) + SumSeq(Tail(s))

RECURSIVE Flatten(_)
Flatten(ss) == IF ss = <<>> THEN <<>> ELSE Head(ss) \o Flatten(Tail(ss))

Zeros(n) == [i \in 1..n |-> 0]

Min2(a, b) == IF a <= b THEN a ELSE b

\* ZipAdd with the sum lost: each entry replaced instead of added to.
ZipAddOverwrites(acc, v) == [i \in 1..Min2(Len(acc), Len(v)) |-> v[i]]

\* acc.iter().zip(v.iter()).map(|(a, b)| a + b): as long as the shorter one.
ZipAdd(acc, v) == [i \in 1..Min2(Len(acc), Len(v)) |-> acc[i] + v[i]]

\* The position of x in s (s.iter().position(..)), 0 when absent.
RECURSIVE Position(_, _)
Position(s, x) ==
  IF s = <<>> THEN 0
  ELSE IF Head(s) = x THEN 1
  ELSE LET r == Position(Tail(s), x) IN IF r = 0 THEN 0 ELSE r + 1

Range(s) == {s[i] : i \in 1..Len(s)}

\* Orderings with one element of S left out.
OrderingsMissingOne(S) ==
  {o \in [1..(Cardinality(S) - 1) -> S] : Cardinality(Range(o)) = Cardinality(S) - 1}

\* Every sequence that lists the elements of S once each.
Orderings(S) == {o \in [1..Cardinality(S) -> S] : Range(o) = S}

SeqsUpTo(S, n) == UNION {[1..k -> S] : k \in 0..n}

(***************************************************************************)
(* The environment: authors, the text files, the texts to classify.         *)
(* A text is the sequence of its chunks (TextSplitter, at most              *)
(* MAX_SENTENCE_LENGTH code units each), a chunk the sequence of its tokens *)
(* (charabia).                                                              *)
(***************************************************************************)
MAX_SENTENCE_LENGTH == 96

Authors == {"A", "B"}

\* What std::fs::read_to_string gives for a path.
Readable(text) == [readable |-> TRUE, text |-> text]

Unreadable == [readable |-> FALSE, text |-> << >>]

Files ==
  [p \in {"x.txt", "y.txt", "empty.txt", "missing.txt"} |->
     CASE p = "x.txt"     -> Readable(<< <<"x", "x", "v">> >>)
       [] p = "y.txt"     -> Readable(<< <<"y">>, <<"y", "y">> >>)
       [] p = "empty.txt" -> Readable(<< >>)
       [] OTHER           -> Unreadable]

Paths == DOMAIN Files

\* The chunks of the texts to classify: a chunk of at most MAX_SENTENCE_LENGTH
\* code units has at most as many tokens.  The chunker and the tokenizer are
\* crates outside this repository, and predicate takes whatever token list it
\* is given, so a chunk without tokens is among them.
Sentences ==
  {s \in { << >>, <<"x">>, <<"y", "u">>, <<"v", "x", "x", "x">>,
           <<"u", "x", "u", "y", "u", "x", "u">> } :
     Len(s) <= MAX_SENTENCE_LENGTH}

Texts == SeqsUpTo(Sentences, MaxSentences)

Datasets == SeqsUpTo(Authors \X Paths, MaxDataset)

\* tokenize: the tokens of a whole text, in order.
tokenize(text) == Flatten(text)

\* preprocess: the chunks with their start offsets, each chunk tokenized.
preprocess(text) ==
  [i \in 1..Len(text) |->
     <<SumSeq([j \in 1..(i - 1) |-> Len(text[j])]), text[i]>>]

(***************************************************************************)
(* BayesianModel::train.                                                    *)
(***************************************************************************)
NoModel == [authors |-> <<"-">>, token_author_dict |-> <<>>,
            author_token_count |-> <<>>, total_token_count |-> -1]

\* token_author_dict.entry(token).or_insert(vec![0; author_count])[author_index] += 1
CountToken(dict, token, author_index, author_count) ==
  [t \in DOMAIN dict \cup {token} |->
     IF t = token
       THEN [(IF t \in DOMAIN dict THEN dict[t] ELSE Zeros(author_count))
               EXCEPT ![author_index] = @ + 1]
       ELSE dict[t]]

RECURSIVE CountTokens(_, _, _, _)
CountTokens(dict, tokens, author_index, author_count) ==
  IF tokens = <<>> THEN dict
  ELSE CountTokens(CountToken(dict, Head(tokens), author_index, author_count),
                   Tail(tokens), author_index, author_count)

\* The loop over the dataset; an io error as soon as a file cannot be read.
RECURSIVE IndexDataset(_, _, _)
IndexDataset(dict, dataset, authors) ==
  IF dataset = <<>> THEN [ok |-> TRUE, dict |-> dict]
  ELSE LET author == Head(dataset)[1]
           path == Head(dataset)[2]
           author_index == Position(authors, author)
       IN  IF ~Files[path].readable THEN [ok |-> FALSE, dict |-> <<>>]
           ELSE IndexDataset(
                  CountTokens(dict, tokenize(Files[path].text), author_index,
                              Len(authors)),
                  Tail(dataset), authors)

\* The fold of the count vectors into the per-author totals.
RECURSIVE FoldCounts(_, _, _)
FoldCounts(acc, dict, todo) ==
  IF todo = {} THEN acc
  ELSE LET t == CHOOSE t \in todo : TRUE
       IN  FoldCounts(ZipAdd(acc, dict[t]), dict, todo \ {t})

\* train(dataset), with `authors` the order in which the HashSet of the
\* dataset's authors happens to be iterated.
train(dataset, authors) ==
  LET author_count == Len(authors)
      indexed == IndexDataset(<<>>, dataset, authors)
      token_author_dict == indexed.dict
      author_token_count ==
        FoldCounts(Zeros(author_count), token_author_dict, DOMAIN token_author_dict)
  IN  IF ~indexed.ok THEN [ok |-> FALSE, model |-> NoModel]
      ELSE [ok |-> TRUE,
            model |-> [authors |-> authors,
                       token_author_dict |-> token_author_dict,
                       author_token_count |-> author_token_count,
                       total_token_count |-> SumSeq(author_token_count)]]

\* train panics: position(..).unwrap() finds no author for an entry reached
\* before any file that cannot be read.
TrainPanics(dataset, authors) ==
  \E i \in 1..Len(dataset) :
    /\ Position(authors, dataset[i][1]) = 0
    /\ \A j \in 1..(i - 1) : Files[dataset[j][2]].readable

(***************************************************************************)
(* BayesianModel::adjust_probabilities.                                     *)
(***************************************************************************)
\* Two ascending sequences merged, equal elements of a before those of b:
\* a[i] goes after the elements of b below it, b[j] after those of a not above it.
Merge(a, b) ==
  LET posA == [i \in 1..Len(a) |->
                 i + Cardinality({j \in 1..Len(b) : FLt(b[j], a[i])})]
      posB == [j \in 1..Len(b) |->
                 j + Cardinality({i \in 1..Len(a) : ~FLt(b[j], a[i])})]
  IN  [k \in 1..(Len(a) + Len(b)) |->
         IF \E i \in 1..Len(a) : posA[i] = k
           THEN a[CHOOSE i \in 1..Len(a) : posA[i] = k]
           ELSE b[CHOOSE j \in 1..Len(b) : posB[j] = k]]

\* probabilities.sort_by(|a, b| a.partial_cmp(b).unwrap()): a stable merge sort.
RECURSIVE SortAscending(_)
SortAscending(s) ==
  IF Len(s) <= 1 THEN s
  ELSE LET half == Len(s) \div 2
       IN  Merge(SortAscending(SubSeq(s, 1, half)),
                 SortAscending(SubSeq(s, half + 1, Len(s))))

\* adjust_probabilities without the sort.
AdjustUnsorted(probabilities) ==
  IF Len(probabilities) > 6
    THEN LET trimmed == SubSeq(probabilities, 2 + 1, Len(probabilities) - 2)
         IN  IF Len(trimmed) > 80
               THEN SubSeq(trimmed, 1, 40)
                      \o SubSeq(trimmed, Len(trimmed) - 40 + 1, Len(trimmed))
               ELSE trimmed
    ELSE probabilities

\* adjust_probabilities keeping the 80 lowest instead of 40 at each end.
AdjustKeepsLowest(probabilities) ==
  IF Len(probabilities) > 6
    THEN LET sorted == SortAscending(probabilities)
             trimmed == SubSeq(sorted, 2 + 1, Len(sorted) - 2)
         IN  IF Len(trimmed) > 80 THEN SubSeq(trimmed, 1, 80) ELSE trimmed
    ELSE probabilities

adjust_probabilities(probabilities) ==
  IF Len(probabilities) > 6
    THEN LET sorted == SortAscending(probabilities)
             trimmed == SubSeq(sorted, 2 + 1, Len(sorted) - 2)
         IN  IF Len(trimmed) > 80
               THEN SubSeq(trimmed, 1, 40)
                      \o SubSeq(trimmed, Len(trimmed) - 40 + 1, Len(trimmed))
               ELSE trimmed
    ELSE probabilities

(***************************************************************************)
(* BayesianModel::predicate.                                                *)
(***************************************************************************)
\* TokenAuthor without the clamp to [MIN_RATING, MAX_RATING].
TokenAuthorUnclamped(model, token, author) ==
  LET token_count == model.token_author_dict[token]
      count == SumSeq(token_count)
      token_author_count == token_count[author]
      this_probability ==
        FDiv(FromU32(token_author_count), FromU32(model.author_token_count[author]))
      other_probability ==
        FDiv(FromU32(count - token_author_count),
             FromU32(model.total_token_count - model.author_token_count[author]))
      raw == FDiv(this_probability, FAdd(this_probability, other_probability))
  IN  [token_author_count |-> token_author_count,
       this_probability |-> this_probability,
       other_probability |-> other_probability,
       raw |-> raw,
       rating |-> raw]

\* The values computed for one known token and one author.
TokenAuthor(model, token, author) ==
  LET token_count == model.token_author_dict[token]
      count == SumSeq(token_count)
      token_author_count == token_count[author]
      this_probability ==
        FDiv(FromU32(token_author_count), FromU32(model.author_token_count[author]))
      other_probability ==
        FDiv(FromU32(count - token_author_count),
             FromU32(model.total_token_count - model.author_token_count[author]))
      raw == FDiv(this_probability, FAdd(this_probability, other_probability))
  IN  [token_author_count |-> token_author_count,
       this_probability |-> this_probability,
       other_probability |-> other_probability,
       raw |-> raw,
       rating |-> FMin(FMax(raw, MIN_RATING), MAX_RATING)]

\* TokenPushes with the computed rating pushed only when the count is not 0.
TokenPushesEither(model, token, author) ==
  IF token \in DOMAIN model.token_author_dict
    THEN LET c == TokenAuthor(model, token, author)
         IN  IF c.token_author_count = 0
               THEN <<[kind |-> "no_token", token |-> token,
                       rating |-> NO_TOKEN_RATING]>>
               ELSE <<[kind |-> "computed", token |-> token, rating |-> c.rating]>>
    ELSE <<[kind |-> "unseen", token |-> token, rating |-> MIN_RATING]>>

\* What one token pushes onto the rating list of one author, each push with
\* the branch that made it.
TokenPushes(model, token, author) ==
  IF token \in DOMAIN model.token_author_dict
    THEN LET c == TokenAuthor(model, token, author)
         IN  (IF c.token_author_count = 0
                THEN <<[kind |-> "no_token", token |-> token,
                        rating |-> NO_TOKEN_RATING]>>
                ELSE <<>>)
               \o <<[kind |-> "computed", token |-> token, rating |-> c.rating]>>
    ELSE <<[kind |-> "unseen", token |-> token, rating |-> MIN_RATING]>>

\* Everything pushed onto ratings[author] by the loop over the tokens.
Pushes(model, tokens, author) ==
  Flatten([k \in 1..Len(tokens) |-> TokenPushes(model, tokens[k], author)])

\* ratings[author] after the loop over the tokens.
Ratings(model, tokens, author) ==
  LET pushes == Pushes(model, tokens, author)
  IN  [i \in 1..Len(pushes) |-> pushes[i].rating]

\* The divisions made for the known tokens of a sentence, for one author.
Computations(model, tokens, author) ==
  Flatten([k \in 1..Len(tokens) |->
             IF tokens[k] \in DOMAIN model.token_author_dict
               THEN <<TokenAuthor(model, tokens[k], author)>>
               ELSE <<>>])

\* iter.product::<f32>() and the product of the complements 1.0 - p.
RECURSIVE Product(_)
Product(s) ==
  IF s = <<>> THEN One ELSE FMul(Product(SubSeq(s, 1, Len(s) - 1)), s[Len(s)])

Complements(s) == [i \in 1..Len(s) |-> FSub(One, s[i])]

\* Combine with p and q exchanged.
CombineSwapped(probabilities) ==
  LET n == Len(probabilities)
      p == FSub(One, PowfNth(Product(Complements(probabilities)), n))
      q == FSub(One, PowfNth(Product(probabilities), n))
      s == FDiv(FSub(q, p), FAdd(p, q))
  IN  FDiv(FAdd(One, s), Two)

\* The score of one author from the adjusted ratings.
Combine(probabilities) ==
  LET n == Len(probabilities)
      p == FSub(One, PowfNth(Product(Complements(probabilities)), n))
      q == FSub(One, PowfNth(Product(probabilities), n))
      s == FDiv(FSub(p, q), FAdd(p, q))
  IN  FDiv(FAdd(One, s), Two)

predicate(model, tokens) ==
  [author \in 1..Len(model.authors) |->
     Combine(adjust_probabilities(Ratings(model, tokens, author)))]

\* predicate panics: an index beyond a count vector or beyond the totals, a
\* u32 subtraction below zero, or partial_cmp(..).unwrap() on a NaN rating in
\* a list long enough to be sorted.
PredicatePanics(model, tokens) ==
  \/ \E k \in 1..Len(tokens) : \E author \in 1..Len(model.authors) :
       /\ tokens[k] \in DOMAIN model.token_author_dict
       /\ LET token_count == model.token_author_dict[tokens[k]]
          IN  \/ author > Len(token_count)
              \/ author > Len(model.author_token_count)
              \/ SumSeq(token_count) - token_count[author] < 0
              \/ model.total_token_count - model.author_token_count[author] < 0
  \/ \E author \in 1..Len(model.authors) :
       /\ Len(Pushes(model, tokens, author)) > 6
       /\ \E k \in 1..Len(tokens) :
            /\ tokens[k] \in DOMAIN model.token_author_dict
            /\ IsNaN(TokenAuthor(model, tokens[k], author).rating)

(***************************************************************************)
(* BayesianModel::predicate_text and classify_text.                         *)
(***************************************************************************)
RECURSIVE FoldScores(_, _)
FoldScores(acc, scores) ==
  IF scores = <<>> THEN acc
  ELSE FoldScores([i \in 1..Min2(Len(acc), Len(Head(scores))) |->
                     FAdd(acc[i], Head(scores)[i])],
                  Tail(scores))

predicate_text(model, text) ==
  LET sentences == preprocess(text)
      sentence_count == Len(sentences)
      sentences_predicate ==
        [i \in 1..sentence_count |->
           <<sentences[i][1], predicate(model, sentences[i][2])>>]
      author_count == Len(model.authors)
      total ==
        FoldScores([a \in 1..author_count |-> Zero],
                   [i \in 1..sentence_count |-> sentences_predicate[i][2]])
  IN  [sentences_predicate |-> sentences_predicate,
       total_predicate |->
         [a \in 1..author_count |-> FDiv(total[a], FromU32(sentence_count))]]

\* transform: the scores keyed by author name.
Transform(model, v) ==
  [name \in {model.authors[a] : a \in 1..Len(v)} |->
     v[CHOOSE a \in 1..Len(v) :
         model.authors[a] = name
           /\ \A b \in (a + 1)..Len(v) : model.authors[b] # name]]

\* classify_text panics when predicate does for one of the sentences.
ClassifyPanics(model, text) ==
  \E i \in 1..Len(text) : PredicatePanics(model, preprocess(text)[i][2])

classify_text(model, text) ==
  LET predication == predicate_text(model, text)
  IN  [sentences_classification |->
         [i \in 1..Len(predication.sentences_predicate) |->
            <<predication.sentences_predicate[i][1],
              Transform(model, predication.sentences_predicate[i][2])>>],
       total_classification |-> Transform(model, predication.total_predicate)]


(***************************************************************************)
(* BayesianModel::save and load: the postcard encoding of the struct.       *)
(* Bytes are numbers 0..255; a string is the sequence of the codes of its   *)
(* characters.                                                              *)
(***************************************************************************)
CharCode ==
  [c \in {"A", "B", "u", "v", "x", "y"} |->
     CASE c = "A" -> 65 [] c = "B" -> 66 [] c = "u" -> 117
       [] c = "v" -> 118 [] c = "x" -> 120 [] OTHER -> 121]

\* The string of a sequence of character codes; "?" stands for the strings
\* that are none of the model's names.
StringOf(codes) ==
  IF codes = <<>> THEN ""
  ELSE IF Len(codes) = 1 /\ \E c \in DOMAIN CharCode : CharCode[c] = codes[1]
    THEN CHOOSE c \in DOMAIN CharCode : CharCode[c] = codes[1]
  ELSE "?"

\* A u32 or usize as a varint: 7 bits a byte, low bits first, the high bit
\* set on every byte but the last.
RECURSIVE Varint(_)
Varint(n) == IF n < 128 THEN <<n>> ELSE <<128 + (n % 128)>> \o Varint(n \div 128)

EncodeString(s) == Varint(1) \o <<CharCode[s]>>

EncodeStrings(v) ==
  Varint(Len(v)) \o Flatten([i \in 1..Len(v) |-> EncodeString(v[i])])

EncodeCounts(v) == Varint(Len(v)) \o Flatten([i \in 1..Len(v) |-> Varint(v[i])])

\* The map, its entries in the order `keys` (the HashMap's iteration order).
EncodeDict(dict, keys) ==
  Varint(Len(keys))
    \o Flatten([i \in 1..Len(keys) |->
                  EncodeString(keys[i]) \o EncodeCounts(dict[keys[i]])])

\* to_allocvec with the totals written before the map.
ToAllocvecTotalsFirst(m, keys) ==
  EncodeStrings(m.authors)
    \o EncodeCounts(m.author_token_count)
    \o EncodeDict(m.token_author_dict, keys)
    \o Varint(m.total_token_count)

\* postcard::to_allocvec(self): the fields in the order of the struct.
to_allocvec(m, keys) ==
  EncodeStrings(m.authors)
    \o EncodeDict(m.token_author_dict, keys)
    \o EncodeCounts(m.author_token_count)
    \o Varint(m.total_token_count)

Failed == [ok |-> FALSE, value |-> <<>>, rest |-> <<>>]

Took(value, rest) == [ok |-> TRUE, value |-> value, rest |-> rest]

RECURSIVE TakeVarint(_)
TakeVarint(bytes) ==
  IF bytes = <<>> THEN Failed
  ELSE IF Head(bytes) < 128 THEN Took(Head(bytes), Tail(bytes))
  ELSE LET more == TakeVarint(Tail(bytes))
       IN  IF more.ok THEN Took(Head(bytes) - 128 + 128 * more.value, more.rest)
           ELSE Failed

\* A length, then as many bytes, which must be UTF-8 (here: ASCII).
TakeString(bytes) ==
  LET n == TakeVarint(bytes)
  IN  IF ~n.ok \/ Len(n.rest) < n.value THEN Failed
      ELSE IF \E i \in 1..n.value : n.rest[i] >= 128 THEN Failed
      ELSE Took(StringOf(SubSeq(n.rest, 1, n.value)),
                SubSeq(n.rest, n.value + 1, Len(n.rest)))

RECURSIVE TakeStringsN(_, _, _)
TakeStringsN(bytes, n, taken) ==
  IF n = 0 THEN Took(taken, bytes)
  ELSE LET s == TakeString(bytes)
       IN  IF s.ok THEN TakeStringsN(s.rest, n - 1, Append(taken, s.value))
           ELSE Failed

RECURSIVE TakeCountsN(_, _, _)
TakeCountsN(bytes, n, taken) ==
  IF n = 0 THEN Took(taken, bytes)
  ELSE LET c == TakeVarint(bytes)
       IN  IF c.ok THEN TakeCountsN(c.rest, n - 1, Append(taken, c.value))
           ELSE Failed

\* Vec<String> and Vec<u32>: a length, then that many elements, whatever the
\* length is.
TakeStrings(bytes) ==
  LET n == TakeVarint(bytes)
  IN  IF n.ok THEN TakeStringsN(n.rest, n.value, <<>>) ELSE Failed

TakeCounts(bytes) ==
  LET n == TakeVarint(bytes)
  IN  IF n.ok THEN TakeCountsN(n.rest, n.value, <<>>) ELSE Failed

\* HashMap<String, Vec<u32>>: a length, then that many (key, value) entries;
\* a key that comes again replaces the earlier entry.
RECURSIVE TakeEntriesN(_, _, _)
TakeEntriesN(bytes, n, dict) ==
  IF n = 0 THEN Took(dict, bytes)
  ELSE LET key == TakeString(bytes)
           counts == TakeCounts(key.rest)
       IN  IF key.ok /\ counts.ok
             THEN TakeEntriesN(counts.rest, n - 1,
                               [t \in DOMAIN dict \cup {key.value} |->
                                  IF t = key.value THEN counts.value ELSE dict[t]])
             ELSE Failed

TakeDict(bytes) ==
  LET n == TakeVarint(bytes)
  IN  IF n.ok THEN TakeEntriesN(n.rest, n.value, <<>>) ELSE Failed

\* postcard::from_bytes(&bin_vec): the four fields one after the other; what
\* follows them is ignored.
from_bytes(bytes) ==
  LET authors == TakeStrings(bytes)
      token_author_dict == TakeDict(authors.rest)
      author_token_count == TakeCounts(token_author_dict.rest)
      total_token_count == TakeVarint(author_token_count.rest)
  IN  IF authors.ok /\ token_author_dict.ok /\ author_token_count.ok
           /\ total_token_count.ok
        THEN [ok |-> TRUE,
              model |-> [authors |-> authors.value,
                         token_author_dict |-> token_author_dict.value,
                         author_token_count |-> author_token_count.value,
                         total_token_count |-> total_token_count.value]]
        ELSE [ok |-> FALSE, model |-> NoModel]

(***************************************************************************)
(* The program: a model is trained, then texts are classified with it.      *)
(***************************************************************************)
VARIABLES
  outcome,          \* what the last call did
  encountered,      \* the authors of the trained dataset, as first encountered
  model,            \* the model the program holds, NoModel when it holds none
  text,             \* the text of the last classify_text
  classification,   \* what the last classify_text returned
  trace,            \* per sentence and author: the ratings pushed, the
                    \* divisions made and the ratings kept by the last predicate
  probabilities,    \* a rating list handed to adjust_probabilities
  adjusted,         \* what adjust_probabilities returned for it
  disk,             \* the file at the model path
  first             \* per text classified so far: what the first
                    \* classify_text of it returned

vars == <<outcome, encountered, model, text, classification, trace,
          probabilities, adjusted, disk, first>>

NoFile == [exists |-> FALSE, bytes |-> <<>>]

File(bytes) == [exists |-> TRUE, bytes |-> bytes]

NoClassification == [sentences_classification |-> <<>>, total_classification |-> <<>>]

Init ==
  /\ outcome = "init"
  /\ encountered = <<>>
  /\ model = NoModel
  /\ text = <<>>
  /\ classification = NoClassification
  /\ trace = <<>>
  /\ probabilities = <<>>
  /\ adjusted = <<>>
  /\ disk = NoFile
  /\ first = <<>>

\* The distinct authors of a dataset in the order of their first entries.
RECURSIVE FirstEncountered(_)
FirstEncountered(d) ==
  IF d = <<>> THEN <<>>
  ELSE LET before == FirstEncountered(SubSeq(d, 1, Len(d) - 1))
           author == d[Len(d)][1]
       IN  IF author \in Range(before) THEN before ELSE Append(before, author)

\* BayesianModel::train(dataset)
Train ==
  /\ outcome = "init"
  /\ \E d \in Datasets :
       \E authors \in Orderings({d[i][1] : i \in 1..Len(d)}) :
         LET r == train(d, authors)
         IN  /\ encountered' = FirstEncountered(d)
             /\ model' = IF TrainPanics(d, authors) THEN NoModel ELSE r.model
             /\ outcome' = IF TrainPanics(d, authors) THEN "panicked"
                           ELSE IF r.ok THEN "trained" ELSE "io_error"
  /\ UNCHANGED <<text, classification, trace, probabilities, adjusted, disk, first>>

TraceOf(m, t) ==
  [i \in 1..Len(t) |->
     [author \in 1..Len(m.authors) |->
        [pushes |-> Pushes(m, t[i], author),
         computed |-> Computations(m, t[i], author),
         retained |-> adjust_probabilities(Ratings(m, t[i], author))]]]

\* The first results, with the result for t added when t has none yet.
Remember(results, t, result) ==
  IF t \in DOMAIN results THEN results
  ELSE [u \in DOMAIN results \cup {t} |-> IF u = t THEN result ELSE results[u]]

\* model.classify_text(text)
Classify ==
  /\ outcome = "trained"
  /\ \E t \in Texts :
       /\ text' = t
       /\ IF ClassifyPanics(model, t)
            THEN /\ outcome' = "panicked"
                 /\ classification' = NoClassification
                 /\ trace' = <<>>
                 /\ first' = first
            ELSE /\ outcome' = "classified"
                 /\ classification' = classify_text(model, t)
                 /\ trace' = TraceOf(model, t)
                 /\ first' = Remember(first, t, classification')
  /\ UNCHANGED <<encountered, model, probabilities, adjusted, disk>>

Next == Train \/ Classify

Spec == Init /\ [][Next]_vars

(***************************************************************************)
(* One model classifying text after text.                                   *)
(***************************************************************************)
\* The texts of at most one sentence of at most two tokens.
RepeatTexts == {t \in Texts : Len(t) <= 1 /\ Len(tokenize(t)) <= 2}

\* classify_text counting the tokens of the text into the model's total.
ReclassifyLearning ==
  /\ outcome \in {"trained", "classified"}
  /\ \E t \in RepeatTexts :
       /\ text' = t
       /\ classification' = classify_text(model, t)
       /\ trace' = TraceOf(model, t)
       /\ first' = Remember(first, t, classification')
       /\ model' = [model EXCEPT !.total_token_count = @ + Len(tokenize(t))]
  /\ outcome' = "classified"
  /\ UNCHANGED <<encountered, probabilities, adjusted, disk>>

\* model.classify_text(text), again and again with the model held.
Reclassify ==
  /\ outcome \in {"trained", "classified"}
  /\ \E t \in RepeatTexts :
       /\ text' = t
       /\ IF ClassifyPanics(model, t)
            THEN /\ outcome' = "panicked"
                 /\ classification' = NoClassification
                 /\ trace' = <<>>
                 /\ first' = first
            ELSE /\ outcome' = "classified"
                 /\ classification' = classify_text(model, t)
                 /\ trace' = TraceOf(model, t)
                 /\ first' = Remember(first, t, classification')
  /\ UNCHANGED <<encountered, model, probabilities, adjusted, disk>>

NextRepeat == Train \/ Reclassify

SpecRepeat == Init /\ [][NextRepeat]_vars

(***************************************************************************)
(* adjust_probabilities on its own: applied to rating lists of every length *)
(* up to MaxRatings.                                                        *)
(***************************************************************************)
\* The ratings 0.20, 0.25, ..., 0.70.
RatingValue(j) == Norm(20 + 5 * j, -2)

\* A list of n ratings, in no particular order.
RatingList(seed, n) ==
  [i \in 1..n |-> RatingValue((seed * i * i + 7 * i + seed) % 11)]

InitAdjust ==
  /\ outcome = "ratings"
  /\ encountered = <<>>
  /\ model = NoModel
  /\ text = <<>>
  /\ classification = NoClassification
  /\ trace = <<>>
  /\ \E seed \in 0..MaxSeed : \E n \in 0..MaxRatings :
       probabilities = RatingList(seed, n)
  /\ adjusted = <<>>
  /\ disk = NoFile
  /\ first = <<>>

\* Self::adjust_probabilities(probabilities)
Adjust ==
  /\ outcome = "ratings"
  /\ adjusted' = adjust_probabilities(probabilities)
  /\ outcome' = "adjusted"
  /\ UNCHANGED <<encountered, model, text, classification, trace, probabilities,
                 disk, first>>

SpecAdjust == InitAdjust /\ [][Adjust]_vars


(***************************************************************************)
(* Persistence: a trained model is saved, the file at the model path is     *)
(* loaded.  The file may also have been left by an interrupted save or      *)
(* written by another program.                                              *)
(***************************************************************************)
\* model.save(path): the file is created, the model encoded and written.
Save ==
  /\ outcome = "trained"
  /\ \E keys \in Orderings(DOMAIN model.token_author_dict) :
       disk' = File(to_allocvec(model, keys))
  /\ outcome' = "saved"
  /\ UNCHANGED <<encountered, model, text, classification, trace,
                 probabilities, adjusted, first>>

\* model.save(path) stopped while std::fs::write was writing: the file holds
\* the first bytes of the encoding.
SaveInterrupted ==
  /\ outcome = "trained"
  /\ \E keys \in Orderings(DOMAIN model.token_author_dict) :
       LET bytes == to_allocvec(model, keys)
       IN  \E n \in 0..(Len(bytes) - 1) : disk' = File(SubSeq(bytes, 1, n))
  /\ outcome' = "interrupted"
  /\ UNCHANGED <<encountered, model, text, classification, trace,
                 probabilities, adjusted, first>>

\* What another program may have stored: the four fields, with vectors of any
\* length up to MaxVector.
StoredShapes ==
  [authors : SeqsUpTo(Authors, MaxVector),
   token_author_dict : {<<>>} \cup {[t \in {"x"} |-> v] : v \in SeqsUpTo(0..1, MaxVector)},
   author_token_count : SeqsUpTo(0..1, MaxVector),
   total_token_count : 0..1]

\* The file at the model path was written by another program.
StoreForeign ==
  /\ outcome = "init"
  /\ \E m \in StoredShapes :
       \E keys \in Orderings(DOMAIN m.token_author_dict) :
         disk' = File(to_allocvec(m, keys))
  /\ outcome' = "stored"
  /\ UNCHANGED <<encountered, model, text, classification, trace,
                 probabilities, adjusted, first>>

\* BayesianModel::load(path)
Load ==
  /\ outcome \in {"init", "saved", "interrupted", "stored"}
  /\ LET decoded == from_bytes(disk.bytes)
     IN  IF ~disk.exists
           THEN /\ outcome' = "load_io_error"
                /\ model' = NoModel
           ELSE /\ outcome' = IF decoded.ok THEN "loaded" ELSE "load_error"
                /\ model' = decoded.model
  /\ UNCHANGED <<encountered, text, classification, trace, probabilities,
                 adjusted, disk, first>>

NextPersist == Train \/ Save \/ SaveInterrupted \/ StoreForeign \/ Load

\* The file an earlier run of the program saved at the model path.
OldFile == File(to_allocvec(train(<< <<"B", "y.txt">> >>, <<"B">>).model, <<"y">>))

\* The model path holds no file, or the file of an earlier run.
InitPersist ==
  /\ outcome = "init"
  /\ encountered = <<>>
  /\ model = NoModel
  /\ text = <<>>
  /\ classification = NoClassification
  /\ trace = <<>>
  /\ probabilities = <<>>
  /\ adjusted = <<>>
  /\ disk \in {NoFile, OldFile}
  /\ first = <<>>

SpecPersist == InitPersist /\ [][NextPersist]_vars

(***************************************************************************)
(* Properties.                                                              *)
(***************************************************************************)
Trained == outcome \in {"trained", "classified"}

Classified == outcome = "classified"

AuthorIndexes == 1..Len(model.authors)

InUnitInterval(score) == IsNum(score) /\ FLe(Zero, score) /\ FLe(score, One)

SentenceScores(i) == classification.sentences_classification[i][2]

\* The tokens an author has a positive count for.
Vocabulary(author) ==
  {t \in DOMAIN model.token_author_dict : model.token_author_dict[t][author] > 0}

RECURSIVE ColumnSum(_, _, _)
ColumnSum(dict, author, todo) ==
  IF todo = {} THEN 0
  ELSE LET t == CHOOSE t \in todo : TRUE
       IN  dict[t][author] + ColumnSum(dict, author, todo \ {t})

\* C1: every per-author per-sentence score returned by classify_text is a
\* defined number in [0, 1], also for a sentence without tokens.
C1_ScoresInUnitInterval ==
  Classified =>
    \A i \in 1..Len(classification.sentences_classification) :
      \A name \in DOMAIN SentenceScores(i) : InUnitInterval(SentenceScores(i)[name])

\* C2: every rating pushed by predicate is a computed rating of a known token,
\* a defined number in [0.2, 0.7], or the fixed 0.2 of a token absent from the
\* model, or the fixed 0.4 of a known token with count 0 for the author.
C2_PushedRatings ==
  Classified =>
    \A i \in 1..Len(trace) : \A author \in AuthorIndexes :
      \A k \in 1..Len(trace[i][author].pushes) :
        LET push == trace[i][author].pushes[k]
            known == push.token \in DOMAIN model.token_author_dict
        IN  \/ /\ push.kind = "computed"
               /\ known
               /\ IsNum(push.rating)
               /\ FLe(Norm(2, -1), push.rating)
               /\ FLe(push.rating, Norm(7, -1))
            \/ /\ push.kind = "unseen"
               /\ ~known
               /\ push.rating = Norm(2, -1)
            \/ /\ push.kind = "no_token"
               /\ known
               /\ model.token_author_dict[push.token][author] = 0
               /\ push.rating = Norm(4, -1)

\* A sentence whose ratings for one author come from all three branches, the
\* computed one from a division by the author's zero total.
C2_Witness ==
  /\ Classified
  /\ \E i \in 1..Len(trace) : \E author \in AuthorIndexes :
       /\ \A kind \in {"computed", "unseen", "no_token"} :
            \E k \in 1..Len(trace[i][author].pushes) :
              trace[i][author].pushes[k].kind = kind
       /\ \E k \in 1..Len(trace[i][author].computed) :
            IsNaN(trace[i][author].computed[k].raw)

\* C3: after a successful train every author's total is the sum of that
\* author's counts over all tokens, the grand total is the sum of the authors'
\* totals, and no token's counts sum to more than the grand total.
C3_TotalsAreSums ==
  Trained =>
    /\ Len(model.author_token_count) = Len(model.authors)
    /\ \A author \in AuthorIndexes :
         model.author_token_count[author]
           = ColumnSum(model.token_author_dict, author, DOMAIN model.token_author_dict)
    /\ model.total_token_count = SumSeq(model.author_token_count)
    /\ \A t \in DOMAIN model.token_author_dict :
         SumSeq(model.token_author_dict[t]) <= model.total_token_count

\* A model of two authors who share tokens, one of them counted twice.
C3_Witness ==
  /\ outcome = "trained"
  /\ Len(model.authors) = 2
  /\ \E t \in DOMAIN model.token_author_dict :
       model.token_author_dict[t][1] > 1 /\ model.token_author_dict[t][2] > 1
  /\ Cardinality(DOMAIN model.token_author_dict) > 1

\* Author a's vocabulary and author b's are disjoint and non-empty, and the
\* text has sentences, each with tokens, all of them of a's vocabulary.
TextOfVocabulary(a, b) ==
  /\ Classified
  /\ Len(model.authors) = 2
  /\ a # b
  /\ Vocabulary(a) # {}
  /\ Vocabulary(b) # {}
  /\ Vocabulary(a) \cap Vocabulary(b) = {}
  /\ text # <<>>
  /\ \A i \in 1..Len(text) : text[i] # <<>> /\ Range(text[i]) \subseteq Vocabulary(a)

\* C4: with two authors of disjoint, non-empty vocabularies, a text made of
\* one author's tokens gives that author the greater aggregate score.
C4_OwnVocabularyWins ==
  \A a, b \in AuthorIndexes :
    TextOfVocabulary(a, b) =>
      FLt(classification.total_classification[model.authors[b]],
          classification.total_classification[model.authors[a]])

\* Such a text of two sentences, one of them long enough to be trimmed.
C4_Witness ==
  \E a, b \in AuthorIndexes :
    /\ TextOfVocabulary(a, b)
    /\ Len(text) = 2
    /\ text[1] # text[2]
    /\ \E i \in 1..Len(text) :
         Len(trace[i][b].retained) < Len(trace[i][b].pushes)

\* C5: classifying the empty text gives no sentence and an aggregate in which
\* every author's score is a defined number.
C5_EmptyTextAggregateDefined ==
  (Classified /\ text = <<>>) =>
    /\ classification.sentences_classification = <<>>
    /\ \A name \in DOMAIN classification.total_classification :
         IsNum(classification.total_classification[name])

\* C6: with an author whose total is zero, no division for a known token is a
\* division by zero: this_probability, other_probability and the rating
\* computed from them are defined numbers.
C6_NoDivisionByZeroTotal ==
  (Classified /\ \E author \in AuthorIndexes : model.author_token_count[author] = 0) =>
    \A i \in 1..Len(trace) : \A author \in AuthorIndexes :
      \A k \in 1..Len(trace[i][author].computed) :
        /\ IsNum(trace[i][author].computed[k].this_probability)
        /\ IsNum(trace[i][author].computed[k].other_probability)
        /\ IsNum(trace[i][author].computed[k].raw)

\* C9: the authors of a trained model are the distinct authors of the
\* dataset in the order in which the dataset first names them.
C9_AuthorsInEncounterOrder == Trained => model.authors = encountered


Adjusted == outcome = "adjusted"

\* How many ratings of the list are below v, and how many are not above it.
Below(list, v) == Cardinality({i \in 1..Len(list) : FLt(list[i], v)})

NotAbove(list, v) == Cardinality({i \in 1..Len(list) : FLe(list[i], v)})

\* The list in ascending order, by rank: its k-th entry is the rating with
\* fewer than k ratings below it and at least k ratings not above it.
Ascending(list) ==
  LET below == [v \in Range(list) |-> Below(list, v)]
      notAbove == [v \in Range(list) |-> NotAbove(list, v)]
  IN  [k \in 1..Len(list) |->
         CHOOSE v \in Range(list) : below[v] < k /\ k <= notAbove[v]]

\* The ascending list without its 2 lowest and its 2 highest ratings.
PostTrim(list) == SubSeq(Ascending(list), 3, Len(list) - 2)

Lowest(list, n) == SubSeq(list, 1, n)

Highest(list, n) == SubSeq(list, Len(list) - n + 1, Len(list))

\* C7: a list of at most 6 ratings is returned as it is; a longer one is
\* returned in ascending order without its 2 lowest and 2 highest ratings,
\* and only the 40 lowest and the 40 highest of these when they are more than
\* 80; so the result of a non-empty list is non-empty, and never longer than 80.
C7_AdjustReference ==
  Adjusted =>
    /\ Len(probabilities) <= 6 => adjusted = probabilities
    /\ Len(probabilities) > 6 =>
         LET rest == PostTrim(probabilities)
         IN  adjusted = IF Len(rest) > 80
                          THEN Lowest(rest, 40) \o Highest(rest, 40)
                          ELSE rest
    /\ probabilities # <<>> => adjusted # <<>>
    /\ Len(adjusted) <= 80

\* An unordered list whose post-trim ratings are more than 80, adjusted.
C7_Witness ==
  /\ Adjusted
  /\ Len(probabilities) > 84
  /\ \E i \in 1..(Len(probabilities) - 1) : FLt(probabilities[i + 1], probabilities[i])
  /\ Cardinality(Range(adjusted)) > 2

\* C8 as stated: more than 80 ratings leave exactly 80, the 40 lowest and the
\* 40 highest of the post-trim ratings.
C8_Over80Leaves80 ==
  (Adjusted /\ Len(probabilities) > 80) =>
    /\ Len(adjusted) = 80
    /\ adjusted = Lowest(PostTrim(probabilities), 40)
                    \o Highest(PostTrim(probabilities), 40)

\* C8, amended: more than 84 ratings (more than 80 after the 2 lowest and the
\* 2 highest are dropped) leave exactly 80, the 40 lowest and the 40 highest
\* of the post-trim ratings; 81 to 84 ratings leave all their post-trim ratings.
C8_Over84Leaves80 ==
  Adjusted =>
    /\ Len(probabilities) > 84 =>
         /\ Len(adjusted) = 80
         /\ adjusted = Lowest(PostTrim(probabilities), 40)
                         \o Highest(PostTrim(probabilities), 40)
    /\ (Len(probabilities) > 80 /\ Len(probabilities) <= 84) =>
         /\ Len(adjusted) = Len(probabilities) - 4
         /\ adjusted = PostTrim(probabilities)

\* 86 ratings adjusted: 82 are left by the first cut, and the middle 2 dropped.
C8_Witness ==
  /\ Adjusted
  /\ Len(probabilities) = 86
  /\ Len(adjusted) = 80
  /\ Len(PostTrim(probabilities)) = 82
  /\ FLt(adjusted[1], adjusted[80])


\* The schema of a model: every count vector and the totals vector have one
\* entry per author.
ValidModel(m) ==
  /\ \A t \in DOMAIN m.token_author_dict :
       Len(m.token_author_dict[t]) = Len(m.authors)
  /\ Len(m.author_token_count) = Len(m.authors)

\* The file holds a complete encoding of a model that satisfies the schema.
HoldsValidModel(file) ==
  /\ file.exists
  /\ from_bytes(file.bytes).ok
  /\ ValidModel(from_bytes(file.bytes).model)
  /\ \E keys \in Orderings(DOMAIN from_bytes(file.bytes).model.token_author_dict) :
       file.bytes = to_allocvec(from_bytes(file.bytes).model, keys)

\* C11: a save to a path that holds a valid model file, completed or
\* interrupted, leaves a complete valid encoding there: the old file or the
\* encoding of the model being saved.
C11_SaveKeepsCompleteFile ==
  [][(HoldsValidModel(disk) /\ outcome = "trained"
        /\ outcome' \in {"saved", "interrupted"})
       => /\ HoldsValidModel(disk')
          /\ \/ disk' = disk
             \/ \E keys \in Orderings(DOMAIN model.token_author_dict) :
                  disk' = File(to_allocvec(model, keys))]_vars

ZeroCountKnown(token, author) ==
  /\ token \in DOMAIN model.token_author_dict
  /\ model.token_author_dict[token][author] = 0

\* How many of the first n tokens are in the model with count 0 for the author.
ZeroCountAmong(tokens, n, author) ==
  Cardinality({k \in 1..n : ZeroCountKnown(tokens[k], author)})

\* C14: each occurrence of a token known to the model with count 0 for the
\* author appends two ratings to the author's list, 0.4 and then the computed
\* rating, which is 0.2; every other occurrence appends one rating; so the
\* list is as long as the sentence plus the occurrences of such tokens.
C14_ZeroCountPushesTwo ==
  Classified =>
    \A i \in 1..Len(trace) : \A author \in AuthorIndexes :
      LET tokens == text[i]
          pushes == trace[i][author].pushes
      IN  /\ Len(pushes) = Len(tokens) + ZeroCountAmong(tokens, Len(tokens), author)
          /\ \A j \in 1..Len(tokens) :
               LET at == j + ZeroCountAmong(tokens, j - 1, author)
               IN  /\ pushes[at].token = tokens[j]
                   /\ ZeroCountKnown(tokens[j], author) =>
                        /\ pushes[at].rating = Norm(4, -1)
                        /\ pushes[at + 1].token = tokens[j]
                        /\ pushes[at + 1].rating = Norm(2, -1)

\* A sentence with two occurrences of a token of count 0 for an author, a
\* token the author has, and a token the model does not know.
C14_Witness ==
  /\ Classified
  /\ \E i \in 1..Len(trace) : \E author \in AuthorIndexes :
       /\ ZeroCountAmong(text[i], Len(text[i]), author) = 2
       /\ Len(trace[i][author].pushes) = Len(text[i]) + 2
       /\ \E j \in 1..Len(text[i]) : text[i][j] \in Vocabulary(author)
       /\ \E j \in 1..Len(text[i]) : text[i][j] \notin DOMAIN model.token_author_dict

\* C15: train on readable files (the empty dataset among them) and
\* classify_text end without a panic: every author of the dataset is found in
\* the authors, every count vector and the totals have one entry per author,
\* no count is above the sum it is subtracted from, and no rating that enters
\* a list is NaN.
C15_NoPanic ==
  /\ outcome # "panicked"
  /\ Trained =>
       /\ Range(encountered) \subseteq Range(model.authors)
       /\ ValidModel(model)
       /\ \A t \in DOMAIN model.token_author_dict : \A author \in AuthorIndexes :
            model.token_author_dict[t][author] <= SumSeq(model.token_author_dict[t])
       /\ \A author \in AuthorIndexes :
            model.author_token_count[author] <= model.total_token_count
  /\ Classified =>
       \A i \in 1..Len(trace) : \A author \in AuthorIndexes :
         \A k \in 1..Len(trace[i][author].pushes) :
           IsNum(trace[i][author].pushes[k].rating)

\* A classification by a model with an author of total 0: a division gave
\* NaN, and the author's list was long enough to be sorted.
C15_Witness ==
  /\ Classified
  /\ \E author \in AuthorIndexes : model.author_token_count[author] = 0
  /\ \E i \in 1..Len(trace) : \E author \in AuthorIndexes :
       /\ Len(trace[i][author].pushes) > 6
       /\ Len(trace[i][author].retained) = Len(trace[i][author].pushes) - 4
       /\ \E k \in 1..Len(trace[i][author].computed) :
            IsNaN(trace[i][author].computed[k].raw)

\* The texts of at most one sentence.
ShortTexts == {t \in Texts : Len(t) <= 1}

\* C12: load of a file that save has written succeeds and returns the saved
\* model: the same authors in the same order, the same count vectors, author
\* totals and grand total, and so the same classification of every text.
C12_LoadReturnsSavedModel ==
  [][(outcome = "saved" /\ outcome' # "saved")
       => /\ outcome' = "loaded"
          /\ model'.authors = model.authors
          /\ model'.token_author_dict = model.token_author_dict
          /\ model'.author_token_count = model.author_token_count
          /\ model'.total_token_count = model.total_token_count
          /\ \A t \in ShortTexts :
               classify_text(model', t) = classify_text(model, t)]_vars

\* A model of two authors and several tokens, trained, saved and loaded.
C12_Witness ==
  /\ outcome = "loaded"
  /\ encountered # <<>>
  /\ Len(model.authors) = 2
  /\ Cardinality(DOMAIN model.token_author_dict) > 2
  /\ \E t \in DOMAIN model.token_author_dict : model.token_author_dict[t][2] > 1
  /\ \E keys \in Orderings(DOMAIN model.token_author_dict) :
       disk = File(to_allocvec(model, keys))

\* C10: load returns no model that violates the schema: a file that is not a
\* valid encoding of the schema makes it fail.
C10_LoadedModelIsValid == outcome = "loaded" => ValidModel(model)

====
